---- MODULE Spec2Model ----
(***************************************************************************)
(* vm-sim: a trace-driven virtual-memory simulator.                        *)
(*                                                                         *)
(* The module models src/src/sim/mod.rs (Operation::parse_line, Sim::new,  *)
(* Sim::next), src/src/sim/evictors.rs (the page table entry, the three    *)
(* eviction policies and their dispatch) and the drivers of                *)
(* src/src/main.rs.                                                        *)
(*                                                                         *)
(* A trace line is a sequence of one-character strings.  An Option<T> is   *)
(* a sequence of length 0 (None) or 1 (Some).  Slot indices are 0-based as *)
(* in the source; memory[i + 1] is slot i.  A panic of the source is the   *)
(* value Panic where an index or a number is expected and the position     *)
(* "panicked" of the run.                                                  *)
(***************************************************************************)
EXTENDS Integers, Sequences, FiniteSets, TLC

\* ------------------------------------------------------------------ bounds

\* Longest trace the engine specification reads.
MaxTraceLen == 3

\* Largest memory size (n_pages) the engine specification is built with.
MaxPages == 2

\* Number of times the millisecond clock advances during one run; further
\* calls of now() return the same millisecond.
MaxClock == 1

\* ------------------------------------------------------------- trace lines

Line_0R == <<"0", " ", "R">>
Line_0W == <<"0", " ", "W">>
Line_1000R == <<"1", "0", "0", "0", " ", "R">>
Line_1000W == <<"1", "0", "0", "0", " ", "W">>
Line_2000R == <<"2", "0", "0", "0", " ", "R">>
Line_2000W == <<"2", "0", "0", "0", " ", "W">>
\* an address that is not hexadecimal
Line_zzR == <<"z", "z", " ", "R">>
\* an operation code that is neither R nor W
Line_0X == <<"0", " ", "X">>
\* no operation code
Line_0 == <<"0">>
\* a further field after the operation code
Line_0Rx == <<"0", " ", "R", " ", "x">>

\* The lines a trace of the engine specification is made of.
Lines ==
    { Line_0R, Line_0W, Line_1000R, Line_1000W, Line_2000R, Line_2000W,
      Line_0Rx, Line_zzR, Line_0X, Line_0 }

\* ------------------------------------------------------------------ values

None == <<>>
Some(x) == <<x>>

\* A Result<T, E> is Ok(x) or Err; the errors are not told apart.
Err == <<>>
Ok(x) == <<x>>

\* An index that a panicking call never returned.
Panic == -1

\* A u32 is held as its upper 20 bits and its lower 12 bits, which keeps
\* every number of the model inside the model checker's integers:
\* [hi |-> v >> 12, lo |-> v & 0xFFF].
PageSize == 4096

\* the number of values of the upper 20 bits
PageCount == 1048576

\* --------------------------------------------------- Operation::parse_line

\* line.split(' '): the fields between single spaces, empty fields kept
RECURSIVE split(_)
split(line) ==
    IF line = <<>>
    THEN << <<>> >>
    ELSE LET rest == split(Tail(line))
         IN  IF Head(line) = " "
             THEN << <<>> >> \o rest
             ELSE << <<Head(line)>> \o Head(rest) >> \o Tail(rest)

\* char::to_digit(16); Panic for a character that is no hexadecimal digit
to_digit(c) ==
    CASE c = "0" -> 0 [] c = "1" -> 1 [] c = "2" -> 2 [] c = "3" -> 3
      [] c = "4" -> 4 [] c = "5" -> 5 [] c = "6" -> 6 [] c = "7" -> 7
      [] c = "8" -> 8 [] c = "9" -> 9
      [] c \in {"a", "A"} -> 10 [] c \in {"b", "B"} -> 11
      [] c \in {"c", "C"} -> 12 [] c \in {"d", "D"} -> 13
      [] c \in {"e", "E"} -> 14 [] c \in {"f", "F"} -> 15
      [] OTHER -> Panic

\* the digits of u32::from_str_radix, most significant first, onto acc:
\* acc * 16 + digit, checked.  Err on a character that is no digit and on a
\* value that does not fit 32 bits.
RECURSIVE from_digits(_, _)
from_digits(digits, acc) ==
    IF digits = <<>>
    THEN Ok(acc)
    ELSE LET d == to_digit(Head(digits))
             lo == acc.lo * 16 + d
             hi == acc.hi * 16 + lo \div PageSize
         IN  IF d = Panic \/ hi >= PageCount
             THEN Err
             ELSE from_digits(Tail(digits), [ hi |-> hi, lo |-> lo % PageSize ])

\* u32::from_str_radix(src, 16).  An empty string is an Err; one leading
\* "+" is accepted, a lone "+" is an Err.
from_str_radix(src) ==
    IF src = <<>>
    THEN Err
    ELSE LET digits == IF Head(src) = "+" THEN Tail(src) ELSE src
         IN  IF digits = <<>>
             THEN Err
             ELSE from_digits(digits, [ hi |-> 0, lo |-> 0 ])

\* parse_line with the address read as 0 when it does not parse
\* (unwrap_or(0) in place of the panic).
parse_line_lenient(line) ==
    LET values == split(line)
        parsed == from_str_radix(values[1])
        address == IF parsed = Err THEN [ hi |-> 0, lo |-> 0 ] ELSE parsed[1]
    IN  IF Len(values) < 2
        THEN Err
        ELSE IF values[2] \notin {<<"R">>, <<"W">>}
        THEN Err
        ELSE Ok([ virtual_address |-> address,
                  virtual_page_number |-> address.hi,
                  page_offset |-> address.lo,
                  op |-> values[2][1] ])

\* Operation::parse_line: Ok(the Operation), or Err when the call panics:
\* the address does not parse, the second field is missing or it is neither
\* "R" nor "W".  Fields after the second are never looked at.
parse_line(line) ==
    LET values == split(line)
        parsed == from_str_radix(values[1])
    IN  IF parsed = Err
        THEN Err
        ELSE IF Len(values) < 2
        THEN Err
        ELSE IF values[2] \notin {<<"R">>, <<"W">>}
        THEN Err
        ELSE Ok([ virtual_address |-> parsed[1],
                  virtual_page_number |-> parsed[1].hi,
                  page_offset |-> parsed[1].lo,
                  op |-> values[2][1] ])

\* ------------------------------------------------------- PageTableEntry

\* PageTableEntry::new: now() is called twice, for created_at and then for
\* last_referenced
PageTableEntry_new(t1, t2) ==
    [ is_dirty |-> FALSE, created_at |-> t1, last_referenced |-> t2 ]

\* PageTableEntry::reference
reference(entry, t) == [ entry EXCEPT !.last_referenced = t ]

\* HashMap::insert / HashMap::remove on the page table, a function from the
\* virtual page numbers that have an entry to their entries
\* insert that creates no entry
insert_nothing(page_table, p, entry) == page_table

insert(page_table, p, entry) ==
    [ q \in DOMAIN page_table \cup {p} |->
        IF q = p THEN entry ELSE page_table[q] ]

\* remove that leaves the entry in the table
remove_nothing(page_table, p) == page_table

\* remove that clears the table
remove_all(page_table, p) == << >>

remove(page_table, p) ==
    [ q \in DOMAIN page_table \ {p} |-> page_table[q] ]

\* ------------------------------------------------------------- evictors

\* contains that looks at the last slot only
contains_last_slot(memory, p) ==
    Len(memory) > 0 /\ memory[Len(memory)] = Some(p)

\* contains that finds no page
contains_never(memory, p) == FALSE

\* memory.contains(&Some(p)): a scan of every slot
contains(memory, p) == \E i \in 1..Len(memory) : memory[i] = Some(p)

\* get_first_empty_index that looks at slot 0 only
get_first_empty_index_slot0(memory) ==
    IF Len(memory) > 0 /\ memory[1] = None THEN Some(0) ELSE None

\* get_first_empty_index that returns the last empty slot (rposition)
get_last_empty_index(memory) ==
    IF \E i \in 1..Len(memory) : memory[i] = None
    THEN Some((CHOOSE i \in 1..Len(memory) :
                  /\ memory[i] = None
                  /\ \A j \in (i + 1)..Len(memory) : memory[j] # None) - 1)
    ELSE None

\* get_first_empty_index: Some(index) of the first empty slot, or None
get_first_empty_index(memory) ==
    IF \E i \in 1..Len(memory) : memory[i] = None
    THEN Some((CHOOSE i \in 1..Len(memory) :
                  /\ memory[i] = None
                  /\ \A j \in 1..(i - 1) : memory[j] # None) - 1)
    ELSE None

\* evict_random: gen_range(0, memory.len()) returns r, any index of the
\* range; the call panics on the empty range of a memory without slots
evict_random(memory, r) ==
    IF Len(memory) = 0 THEN Panic ELSE r

\* memory_to_pages: the (index, entry) pairs of the occupied slots whose
\* page has a page table entry, in slot order
RECURSIVE memory_to_pages_from(_, _, _)
memory_to_pages_from(memory, page_table, i) ==
    IF i > Len(memory)
    THEN <<>>
    ELSE LET rest == memory_to_pages_from(memory, page_table, i + 1)
         IN  IF memory[i] # None /\ memory[i][1] \in DOMAIN page_table
             THEN << <<i - 1, page_table[memory[i][1]]>> >> \o rest
             ELSE rest

memory_to_pages(memory, page_table) ==
    memory_to_pages_from(memory, page_table, 1)

\* The comparison of the two sort_by closures: by names the field both
\* sides are compared on, "last_referenced" or "created_at".
cmp_key(pair, by) ==
    IF by = "last_referenced"
    THEN pair[2].last_referenced
    ELSE pair[2].created_at

\* an insertion that puts pair in front of the elements that compare equal
\* to it, as a sort that is not stable may
RECURSIVE sorted_insert_unstable(_, _, _)
sorted_insert_unstable(sorted, pair, by) ==
    IF sorted = <<>>
    THEN <<pair>>
    ELSE IF cmp_key(Head(sorted), by) < cmp_key(pair, by)
    THEN <<Head(sorted)>> \o sorted_insert_unstable(Tail(sorted), pair, by)
    ELSE <<pair>> \o sorted

\* slice::sort_by, a stable sort: pair goes behind every element of the
\* sorted sequence that does not compare greater than it
RECURSIVE sorted_insert(_, _, _)
sorted_insert(sorted, pair, by) ==
    IF sorted = <<>>
    THEN <<pair>>
    ELSE IF cmp_key(Head(sorted), by) <= cmp_key(pair, by)
    THEN <<Head(sorted)>> \o sorted_insert(Tail(sorted), pair, by)
    ELSE <<pair>> \o sorted

RECURSIVE sort_by(_, _)
sort_by(pairs, by) ==
    IF pairs = <<>>
    THEN <<>>
    ELSE sorted_insert(sort_by(SubSeq(pairs, 1, Len(pairs) - 1), by),
                       pairs[Len(pairs)], by)

\* sorted.first().unwrap().0
first_index(sorted) == IF sorted = <<>> THEN Panic ELSE sorted[1][1]

evict_least_recent(memory, page_table) ==
    first_index(sort_by(memory_to_pages(memory, page_table),
                        "last_referenced"))

evict_fifo(memory, page_table) ==
    first_index(sort_by(memory_to_pages(memory, page_table), "created_at"))

\* evict: the first empty slot when there is one, else the policy's choice;
\* Panic for a name that is no policy.  r is the index evict_random draws.
evict(name, memory, page_table, r) ==
    LET n == get_first_empty_index(memory)
    IN  IF n # None
        THEN n[1]
        ELSE CASE name = "random" -> evict_random(memory, r)
               [] name = "lru" -> evict_least_recent(memory, page_table)
               [] name = "fifo" -> evict_fifo(memory, page_table)
               [] OTHER -> Panic

\* ------------------------------------------------------------------ Sim

\* SimState of a Sim just built
SimState_zero == [ total_events |-> 0, read_count |-> 0, write_count |-> 0 ]

\* Sim::new: n_pages empty slots, an empty page table, the counters at 0.
\* Neither n_pages nor the algorithm name is looked at.
Sim_new(n_pages, algorithm) ==
    [ algorithm |-> algorithm,
      memory |-> [ i \in 1..n_pages |-> None ],
      page_table |-> << >>,
      state |-> SimState_zero ]

\* the event left uncounted
count_event_forgotten(state) == state

\* state.total_events += 1
count_event(state) == [ state EXCEPT !.total_events = @ + 1 ]

\* every evicted page taken for dirty
evicted_page_always_dirty(page_table, p) == TRUE

\* no evicted page taken for dirty
evicted_page_never_dirty(page_table, p) == FALSE

\* evicted_page.is_dirty, of the entry of the page p in the victim slot
evicted_page_is_dirty(page_table, p) == page_table[p].is_dirty

\* What a call of Sim::next leaves behind: the Sim, the value returned
\* (None, or Some(state)), whether the call panicked instead of returning,
\* and the number of calls of now() it made.
Outcome(self, ret, panicked, now_calls) ==
    [ self |-> self, ret |-> ret, panicked |-> panicked,
      now_calls |-> now_calls ]

\* Sim::next is modelled in the order of its statements, one operator per
\* stretch of the code, each handing the Sim and the local `state` as they
\* are at that point to the next.  t is the sequence of values the calls of
\* now() return, in call order, calls the number of calls made so far, and
\* r the index evict_random draws.  The counters are advanced on the local
\* copy `state` and stored in self.state as the last step; a panic leaves
\* the page table and the memory as they are at that point.

\* the match on op.op as an assignment of the flag: a Read clears it
next_commit_sets_flag(self, state, op, calls) ==
    Outcome([ self EXCEPT
                !.page_table[op.virtual_page_number].is_dirty = (op.op = "W"),
                !.state = state ],
            Some(state), FALSE, calls)

\* the match on op.op, self.state = state, return Some(self.state)
next_commit(self, state, op, calls) ==
    Outcome([ self EXCEPT
                !.page_table[op.virtual_page_number].is_dirty =
                    IF op.op = "W" THEN TRUE ELSE @,
                !.state = state ],
            Some(state), FALSE, calls)

\* self.page_table.get_mut(&op.virtual_page_number).unwrap(), and
\* entry.reference()
next_reference(self, state, op, t, calls) ==
    IF op.virtual_page_number \notin DOMAIN self.page_table
    THEN Outcome(self, None, TRUE, calls)
    ELSE next_commit(
             [ self EXCEPT !.page_table[op.virtual_page_number] =
                               reference(@, t[calls + 1]) ],
             state, op, calls + 1)

\* state.read_count += 1 and the page stored into the slot
next_store(self, state, op, t, calls, index) ==
    next_reference(
        [ self EXCEPT !.memory[index + 1] = Some(op.virtual_page_number) ],
        [ state EXCEPT !.read_count = @ + 1 ],
        op, t, calls)

\* Whether the slot holds a page that has an entry, and the entry is dirty.
writes_back(self, index) ==
    /\ self.memory[index + 1] # None
    /\ self.memory[index + 1][1] \in DOMAIN self.page_table
    /\ evicted_page_is_dirty(self.page_table, self.memory[index + 1][1])

\* "save previous page": index is what evict returned
next_evict(self, state, op, t, calls, index) ==
    IF index = Panic
    THEN Outcome(self, None, TRUE, calls)
    ELSE IF writes_back(self, index)
    THEN next_store(
             [ self EXCEPT !.page_table =
                               remove(@, self.memory[index + 1][1]) ],
             [ state EXCEPT !.write_count = @ + 1 ],
             op, t, calls, index)
    ELSE next_store(self, state, op, t, calls, index)

\* "load from disk if not loaded"
next_load(self, state, op, t, r, calls) ==
    IF contains(self.memory, op.virtual_page_number)
    THEN next_reference(self, state, op, t, calls)
    ELSE next_evict(self, state, op, t, calls,
                    evict(self.algorithm, self.memory, self.page_table, r))

\* "create page table entry if it does not exist"
next_entry(self, state, op, t, r) ==
    IF op.virtual_page_number \in DOMAIN self.page_table
    THEN next_load(self, state, op, t, r, 0)
    ELSE next_load(
             [ self EXCEPT !.page_table =
                 insert(@, op.virtual_page_number,
                        PageTableEntry_new(t[1], t[2])) ],
             state, op, t, r, 2)

\* Operation::parse_line(line.unwrap()): parsed is its result
next_parsed(self, state, parsed, t, r) ==
    IF parsed = Err
    THEN Outcome(self, None, TRUE, 0)
    ELSE next_entry(self, state, parsed[1], t, r)

\* Sim::next on `line`, the Option the trace reader returns.
Sim_next(self, line, t, r) ==
    IF line = None
    THEN Outcome(self, None, FALSE, 0)
    ELSE next_parsed(self, count_event(self.state), parse_line(line[1]), t, r)

\* ------------------------------------------------------------ the clock

\* now(): the calls of one event return t[1], t[2], ... in call order.  The
\* millisecond clock never runs backwards, and between two calls it stays
\* or moves on, which is all that decides the order of two timestamps.  It
\* moves on MaxClock times at most.  An event makes n calls; the entries of
\* t behind the n-th are not used and repeat it.
Ticks(clock, n) ==
    { t \in [ 1..3 -> clock..MaxClock ] :
        /\ t[1] <= clock + 1
        /\ t[2] \in t[1]..(t[1] + 1)
        /\ t[3] \in t[2]..(t[2] + 1)
        /\ n = 0 => t[1] = clock
        /\ \A i \in 2..3 : i > n => t[i] = t[i - 1] }

\* The clock after the calls of an outcome.
ClockAfter(clock, t, out) ==
    IF out.now_calls = 0 THEN clock ELSE t[out.now_calls]

\* The indices gen_range(0, memory.len()) may return when evict_random is
\* called: the policy is "random" and no slot is empty.  0 stands in when
\* no index is drawn.
RandomRange(self) ==
    IF /\ self.algorithm = "random"
       /\ Len(self.memory) > 0
       /\ get_first_empty_index(self.memory) = None
    THEN 0..(Len(self.memory) - 1)
    ELSE {0}

\* ------------------------------------------------------- one engine run

\* The policy names of a run: the three policies and a name that is none.
Algorithms == { "random", "lru", "fifo", "mru" }

\* The traces of the concrete scenarios of the specification's section 8
\* that the run is followed along.
Scenario_0R_1000W == << Line_0R, Line_1000W >>

Scenario_0W_1000R_0R == << Line_0W, Line_1000R, Line_0R >>

Scenarios == { Scenario_0R_1000W, Scenario_0W_1000R_0R }

\* The trace read so far when it is the beginning of a scenario, else Lost.
Lost == << <<"?">> >>

Follow(consumed, line) ==
    LET now == Append(consumed, line)
    IN  IF \E sc \in Scenarios :
              Len(now) <= Len(sc) /\ SubSeq(sc, 1, Len(now)) = now
        THEN now
        ELSE Lost

\* MalformedTraceLine as the specification's sections 4.1 and 7 define it:
\* the address is not a hexadecimal 32-bit number, or the operation code is
\* missing, or it is neither R nor W.
HexDigits ==
    { "0", "1", "2", "3", "4", "5", "6", "7", "8", "9",
      "a", "b", "c", "d", "e", "f", "A", "B", "C", "D", "E", "F" }

IsHexAddress(field) ==
    /\ Len(field) \in 1..8
    /\ \A i \in 1..Len(field) : field[i] \in HexDigits

Malformed(line) ==
    LET fields == split(line)
    IN  \/ ~IsHexAddress(fields[1])
        \/ Len(fields) < 2
        \/ fields[2] \notin { <<"R">>, <<"W">> }

VARIABLES
    sim,         \* the Sim: algorithm, memory, page_table, state
    pc,          \* "running", "exhausted" (next returned None), "panicked"
    clock,       \* the value the last call of now() returned
    line_read,   \* the Option the trace reader returned last
    lines_read,  \* the number of lines the trace reader has returned
    well_formed, \* the number of those lines that are not malformed
    referenced,  \* the virtual page numbers of the lines parsed so far
    evictions,   \* the faults so far whose victim slot was occupied
    consumed,    \* the trace read so far while it follows a scenario
    written,     \* the resident pages a Write has targeted since they last
                 \* entered memory
    queue,       \* the resident pages in the order they entered memory
    sim2,        \* the Sim of a second run on the same trace
    pc2,         \* the position of the second run
    clock2,      \* the clock of the second run
    trace_file,  \* the lines of the trace file a driver runs the engine on
    trace,       \* the lines the trace reader of the Sim has still to return
    attempt,     \* the locals of the driver.  find_optimal_memory:
                 \* current_attempt, previous_attempt, within_20;
                 \* writes_to_memory: n_pages, entries, last
    returned,    \* the Option of the value the driver has returned
    wrote        \* the memory sizes whose run the driver has seen write

\* what is recorded about the trace and the run beside the Sim
history ==
    << line_read, well_formed, referenced, evictions, consumed, written, queue >>

\* the second run
second == << sim2, pc2, clock2 >>

\* a driver of src/main.rs
driver == << trace_file, trace, attempt, returned, wrote >>

vars == << sim, pc, clock, lines_read, history, second, driver >>

\* No second run.
NoSecond ==
    /\ sim2 = None
    /\ pc2 = "none"
    /\ clock2 = 0

\* No driver: the engine is run by itself and its trace reader returns
\* whatever the trace holds.
NoDriver ==
    /\ trace_file = << >>
    /\ trace = << >>
    /\ attempt = None
    /\ returned = None
    /\ wrote = {}

\* A run starts with the Sim that Sim::new returns.
Init ==
    /\ sim \in { Sim_new(n_pages, algorithm) :
                   n_pages \in 0..MaxPages, algorithm \in Algorithms }
    /\ pc = "running"
    /\ clock = 0
    /\ line_read = None
    /\ lines_read = 0
    /\ well_formed = 0
    /\ referenced = {}
    /\ evictions = 0
    /\ consumed = << >>
    /\ written = {}
    /\ queue = << >>
    /\ NoSecond
    /\ NoDriver

\* Whether the step from memory to memory_after put a page into an occupied
\* slot.
Evicted(memory, memory_after) ==
    \E i \in 1..Len(memory) : memory_after[i] # memory[i] /\ memory[i] # None

\* The virtual page numbers a line refers to: one when it parses.
PagesOf(line) ==
    IF parse_line(line) = Err
    THEN {}
    ELSE { parse_line(line)[1].virtual_page_number }

\* The resident pages that a Write has targeted since they last entered
\* memory, after the call of Sim::next on `line` with the outcome out:
\* a page that is no longer resident leaves the set, as does the page of the
\* line when the call brought it into memory, and the page of a Write joins
\* it.  A call that panics has completed no access.
WrittenAfter(memory, out, line) ==
    IF out.panicked
    THEN written
    ELSE LET op == parse_line(line)[1]
             p == op.virtual_page_number
             kept == { q \in written :
                         /\ contains(out.self.memory, q)
                         /\ q = p => contains(memory, p) }
         IN  IF op.op = "W" THEN kept \cup {p} ELSE kept

\* Sim::next when the trace reader returns a line.
next_line ==
    /\ pc = "running"
    /\ lines_read < MaxTraceLen
    /\ \E line \in Lines, r \in RandomRange(sim) :
         LET n == Sim_next(sim, Some(line), << clock, clock, clock >>, r).now_calls
         IN  \E t \in Ticks(clock, n) :
               LET out == Sim_next(sim, Some(line), t, r)
               IN  /\ sim' = out.self
                   /\ pc' = IF out.panicked THEN "panicked" ELSE "running"
                   /\ clock' = ClockAfter(clock, t, out)
                   /\ line_read' = Some(line)
                   /\ lines_read' = lines_read + 1
                   /\ well_formed' = IF Malformed(line)
                                     THEN well_formed
                                     ELSE well_formed + 1
                   /\ referenced' = referenced \cup PagesOf(line)
                   /\ evictions' = IF Evicted(sim.memory, out.self.memory)
                                   THEN evictions + 1
                                   ELSE evictions
                   /\ consumed' = Follow(consumed, line)
                   /\ written' = WrittenAfter(sim.memory, out, line)
    /\ UNCHANGED << queue, second, driver >>

\* Sim::next when the trace reader is at the end of the trace: None, now and
\* on every later call.
next_none ==
    /\ pc \in { "running", "exhausted" }
    /\ LET out == Sim_next(sim, None, << clock, clock, clock >>, 0)
       IN  /\ sim' = out.self
           /\ pc' = "exhausted"
           /\ clock' = ClockAfter(clock, << clock, clock, clock >>, out)
    /\ line_read' = None
    /\ UNCHANGED << lines_read, well_formed, referenced, evictions, consumed >>
    /\ UNCHANGED << written, queue, second, driver >>

Next == next_line \/ next_none

Spec == Init /\ [][Next]_vars

\* ------------------------------------- two runs on the same trace

\* Longest trace the two runs read.
MaxRepeatLen == 4

\* The policies whose runs are compared, with a memory of one slot or more.
InitRepeat ==
    /\ sim \in { Sim_new(n_pages, algorithm) :
                   n_pages \in 1..MaxPages, algorithm \in { "lru", "fifo" } }
    /\ sim2 = sim
    /\ pc = "running"
    /\ pc2 = "running"
    /\ clock = 0
    /\ clock2 = 0
    /\ line_read = None
    /\ lines_read = 0
    /\ well_formed = 0
    /\ referenced = {}
    /\ evictions = 0
    /\ consumed = << >>
    /\ written = {}
    /\ queue = << >>
    /\ NoDriver

\* Both runs call Sim::next and their trace readers return the same line,
\* the next line of the trace; each run has the timestamps of its own.
repeat_line ==
    /\ pc = "running"
    /\ pc2 = "running"
    /\ lines_read < MaxRepeatLen
    /\ \E line \in Lines :
         LET n == Sim_next(sim, Some(line), << clock, clock, clock >>, 0).now_calls
             n2 == Sim_next(sim2, Some(line), << clock2, clock2, clock2 >>, 0).now_calls
         IN  \E t \in Ticks(clock, n), t2 \in Ticks(clock2, n2) :
               LET out == Sim_next(sim, Some(line), t, 0)
                   out2 == Sim_next(sim2, Some(line), t2, 0)
               IN  /\ sim' = out.self
                   /\ sim2' = out2.self
                   /\ pc' = IF out.panicked THEN "panicked" ELSE "running"
                   /\ pc2' = IF out2.panicked THEN "panicked" ELSE "running"
                   /\ clock' = ClockAfter(clock, t, out)
                   /\ clock2' = ClockAfter(clock2, t2, out2)
                   /\ line_read' = Some(line)
                   /\ lines_read' = lines_read + 1
    /\ UNCHANGED << well_formed, referenced, evictions, consumed, driver >>
    /\ UNCHANGED << written, queue >>

\* Both trace readers are at the end of the trace.
repeat_none ==
    /\ pc = "running"
    /\ pc2 = "running"
    /\ sim' = Sim_next(sim, None, << clock, clock, clock >>, 0).self
    /\ sim2' = Sim_next(sim2, None, << clock2, clock2, clock2 >>, 0).self
    /\ pc' = "exhausted"
    /\ pc2' = "exhausted"
    /\ line_read' = None
    /\ UNCHANGED << clock, clock2, lines_read >>
    /\ UNCHANGED << well_formed, referenced, evictions, consumed, driver >>
    /\ UNCHANGED << written, queue >>

NextRepeat == repeat_line \/ repeat_none

SpecRepeat == InitRepeat /\ [][NextRepeat]_vars

\* ------------------------------------------------- find_optimal_memory

\* let mut current_attempt = 20
FirstAttempt == 20

\* current_attempt += 20
AttemptStep == 20

\* The largest number of pages of a trace the search is run on.
MaxSearchPages == 22

\* The line "<page in hexadecimal>000 W".
HexChars ==
    << "0", "1", "2", "3", "4", "5", "6", "7",
       "8", "9", "a", "b", "c", "d", "e", "f" >>

RECURSIVE HexOf(_)
HexOf(n) ==
    IF n < 16
    THEN << HexChars[n + 1] >>
    ELSE HexOf(n \div 16) \o << HexChars[(n % 16) + 1] >>

WriteLine(page) == HexOf(page) \o << "0", "0", "0", " ", "W" >>

\* The trace that writes the pages 0 .. n - 1 once each.
WriteTrace(n) == [ i \in 1..n |-> WriteLine(i - 1) ]

\* The traces the search is run on: one write; a line that does not parse;
\* writes to more pages than the first attempt has slots.
SearchTraces ==
    { << Line_0W >>, << Line_0W, Line_zzR >> }
    \cup { WriteTrace(n) : n \in (FirstAttempt + 1)..MaxSearchPages }

\* let algorithms = vec!["lru", "fifo", "random"]
SearchAlgorithms == { "lru", "fifo", "random" }

\* find_optimal_memory at its first Sim::new.
InitOptimal ==
    /\ trace_file \in SearchTraces
    /\ trace = trace_file
    /\ attempt = [ current_attempt |-> FirstAttempt,
                   previous_attempt |-> FirstAttempt,
                   within_20 |-> FALSE ]
    /\ sim \in { Sim_new(FirstAttempt, algorithm) :
                   algorithm \in SearchAlgorithms }
    /\ returned = None
    /\ wrote = {}
    /\ pc = "running"
    /\ clock = 0
    /\ line_read = None
    /\ lines_read = 0
    /\ well_formed = 0
    /\ referenced = {}
    /\ evictions = 0
    /\ consumed = << >>
    /\ written = {}
    /\ queue = << >>
    /\ NoSecond

\* The Option the trace reader returns next.
NextOfTrace == IF trace = << >> THEN None ELSE Some(Head(trace))

\* The top of the loop with current_attempt = n: Sim::new opens the trace
\* file again.
Restart(n) ==
    /\ sim' = Sim_new(n, sim.algorithm)
    /\ trace' = trace_file

\* An iteration of `for state in sim` whose snapshot shows no write, or
\* whose call of Sim::next panics.
optimal_event ==
    /\ pc = "running"
    /\ returned = None
    /\ trace # << >>
    /\ \E r \in RandomRange(sim) :
         LET n == Sim_next(sim, NextOfTrace, << clock, clock, clock >>, r).now_calls
         IN  \E t \in Ticks(clock, n) :
               LET out == Sim_next(sim, NextOfTrace, t, r)
               IN  /\ IF out.panicked THEN TRUE ELSE out.ret[1].write_count = 0
                   /\ sim' = out.self
                   /\ pc' = IF out.panicked THEN "panicked" ELSE "running"
                   /\ clock' = ClockAfter(clock, t, out)
    /\ trace' = Tail(trace)
    /\ UNCHANGED << trace_file, attempt, returned, wrote >>
    /\ UNCHANGED << lines_read, history, second >>

\* An iteration whose snapshot shows a write: within_20 returns
\* current_attempt - 1, else the search goes on 20 pages up.
optimal_write ==
    /\ pc = "running"
    /\ returned = None
    /\ trace # << >>
    /\ \E r \in RandomRange(sim) :
         LET n == Sim_next(sim, NextOfTrace, << clock, clock, clock >>, r).now_calls
         IN  \E t \in Ticks(clock, n) :
               LET out == Sim_next(sim, NextOfTrace, t, r)
               IN  /\ ~out.panicked
                   /\ out.ret[1].write_count > 0
                   /\ clock' = ClockAfter(clock, t, out)
                   /\ IF attempt.within_20
                      THEN /\ returned' = Some(attempt.current_attempt - 1)
                           /\ sim' = out.self
                           /\ trace' = Tail(trace)
                           /\ attempt' = attempt
                      ELSE /\ returned' = None
                           /\ attempt' =
                                [ attempt EXCEPT
                                    !.previous_attempt = attempt.current_attempt,
                                    !.current_attempt = @ + AttemptStep ]
                           /\ Restart(attempt.current_attempt + AttemptStep)
    /\ wrote' = wrote \cup { attempt.current_attempt }
    /\ UNCHANGED << trace_file, pc >>
    /\ UNCHANGED << lines_read, history, second >>

\* The loop over the snapshots ends: Sim::next returns None.  "ran whole
\* sim without any writes".
optimal_end ==
    /\ pc = "running"
    /\ returned = None
    /\ trace = << >>
    /\ Sim_next(sim, NextOfTrace, << clock, clock, clock >>, 0).ret = None
    /\ IF attempt.within_20
          /\ attempt.current_attempt >= attempt.previous_attempt
       THEN /\ returned' = Some(attempt.current_attempt)
            /\ UNCHANGED << sim, trace, attempt >>
       ELSE IF attempt.within_20
       THEN /\ returned' = None
            /\ attempt' = [ attempt EXCEPT !.current_attempt = @ + 1 ]
            /\ Restart(attempt.current_attempt + 1)
       ELSE /\ returned' = None
            /\ attempt' = [ attempt EXCEPT
                              !.current_attempt = attempt.previous_attempt + 1,
                              !.within_20 = TRUE ]
            /\ Restart(attempt.previous_attempt + 1)
    /\ UNCHANGED << trace_file, wrote, pc, clock >>
    /\ UNCHANGED << lines_read, history, second >>

NextOptimal == optimal_event \/ optimal_write \/ optimal_end

SpecOptimal == InitOptimal /\ [][NextOptimal]_vars

\* ---------------------------------------------------- writes_to_memory

\* n_pages += 50
SweepStep == 50

\* The largest number of pages of a trace the sweep is run on.
MaxSweepPages == 51

\* The traces the sweep is run on: no line at all; one write; a line that
\* does not parse; writes to more pages than the first size has slots.
SweepTraces ==
    { << >>, << Line_0W >>, << Line_0W, Line_zzR >> }
    \cup { WriteTrace(n) : n \in (SweepStep + 1)..MaxSweepPages }

\* writes_to_memory at its first Sim::new: entries is empty and n_pages has
\* been advanced from 0 once.  last is the Option that sim.last() is about
\* to return, the last snapshot the run has emitted.
InitSweep ==
    /\ trace_file \in SweepTraces
    /\ trace = trace_file
    /\ attempt = [ n_pages |-> SweepStep, entries |-> << >>, last |-> None ]
    /\ sim \in { Sim_new(SweepStep, algorithm) :
                   algorithm \in SearchAlgorithms }
    /\ returned = None
    /\ wrote = {}
    /\ pc = "running"
    /\ clock = 0
    /\ line_read = None
    /\ lines_read = 0
    /\ well_formed = 0
    /\ referenced = {}
    /\ evictions = 0
    /\ consumed = << >>
    /\ written = {}
    /\ queue = << >>
    /\ NoSecond

\* sim.last() draws a snapshot from the Sim, or the call of Sim::next
\* panics.
sweep_event ==
    /\ pc = "running"
    /\ returned = None
    /\ trace # << >>
    /\ \E r \in RandomRange(sim) :
         LET n == Sim_next(sim, NextOfTrace, << clock, clock, clock >>, r).now_calls
         IN  \E t \in Ticks(clock, n) :
               LET out == Sim_next(sim, NextOfTrace, t, r)
               IN  /\ sim' = out.self
                   /\ pc' = IF out.panicked THEN "panicked" ELSE "running"
                   /\ clock' = ClockAfter(clock, t, out)
                   /\ attempt' = IF out.panicked
                                 THEN attempt
                                 ELSE [ attempt EXCEPT !.last = out.ret ]
    /\ trace' = Tail(trace)
    /\ UNCHANGED << trace_file, returned, wrote >>
    /\ UNCHANGED << lines_read, history, second >>

\* Sim::next returns None and sim.last() returns: unwrap() panics when the
\* run emitted no snapshot; else the sample is pushed, and the sweep returns
\* the entries when the sample shows no write, or goes on 50 pages up.
sweep_last ==
    /\ pc = "running"
    /\ returned = None
    /\ trace = << >>
    /\ Sim_next(sim, NextOfTrace, << clock, clock, clock >>, 0).ret = None
    /\ IF attempt.last = None
       THEN /\ pc' = "panicked"
            /\ UNCHANGED << sim, trace, attempt, returned >>
       ELSE LET entries == Append(attempt.entries,
                                  << attempt.n_pages,
                                     attempt.last[1].write_count >>)
            IN  IF attempt.last[1].write_count = 0
                THEN /\ returned' = Some(entries)
                     /\ attempt' = [ attempt EXCEPT !.entries = entries ]
                     /\ UNCHANGED << sim, trace, pc >>
                ELSE /\ returned' = None
                     /\ attempt' = [ n_pages |-> attempt.n_pages + SweepStep,
                                     entries |-> entries,
                                     last |-> None ]
                     /\ Restart(attempt.n_pages + SweepStep)
                     /\ pc' = pc
    /\ UNCHANGED << trace_file, wrote, clock >>
    /\ UNCHANGED << lines_read, history, second >>

NextSweep == sweep_event \/ sweep_last

SpecSweep == InitSweep /\ [][NextSweep]_vars

\* ------------------------------------------- Operation::parse_line alone

\* Longest line parse_line is called on.
MaxLineLen == 5

\* The characters of those lines: a hexadecimal digit, a letter that is
\* none, the separator, the operation codes and a letter that is none.
ParseChars == { "0", "z", " ", "R", "W", "x" }

ParseLines ==
    UNION { [ 1..n -> ParseChars ] : n \in 0..MaxLineLen }

\* A call of Operation::parse_line on a line, before it returns.  No Sim is
\* built.
InitParse ==
    /\ line_read \in { Some(line) : line \in ParseLines }
    /\ returned = None
    /\ pc = "running"
    /\ sim = None
    /\ clock = 0
    /\ lines_read = 0
    /\ well_formed = 0
    /\ referenced = {}
    /\ evictions = 0
    /\ consumed = << >>
    /\ written = {}
    /\ queue = << >>
    /\ trace_file = << >>
    /\ trace = << >>
    /\ attempt = None
    /\ wrote = {}
    /\ NoSecond

\* The call returns its Operation, or panics.
parse_line_call ==
    /\ pc = "running"
    /\ returned = None
    /\ returned' = Some(parse_line(line_read[1]))
    /\ pc' = IF parse_line(line_read[1]) = Err THEN "panicked" ELSE "returned"
    /\ UNCHANGED << sim, clock, lines_read, history, second >>
    /\ UNCHANGED << trace_file, trace, attempt, wrote >>

NextParse == parse_line_call

SpecParse == InitParse /\ [][NextParse]_vars

\* The trace file format of the specification's section 5: the address in
\* hexadecimal digits, one space, one operation code R or W, and no more.
FormatOk(line) ==
    /\ Len(line) >= 3
    /\ line[Len(line)] \in { "R", "W" }
    /\ line[Len(line) - 1] = " "
    /\ \A i \in 1..(Len(line) - 2) : line[i] \in HexDigits

\* ------------------------------------------------- a run under fifo

\* Longest trace the run under fifo reads.
MaxFifoLen == 5

\* The lines of its trace: the lines that parse.
FifoLines ==
    { Line_0R, Line_0W, Line_1000R, Line_1000W, Line_2000R, Line_2000W }

InitFifo ==
    /\ sim \in { Sim_new(n_pages, "fifo") : n_pages \in 1..MaxPages }
    /\ pc = "running"
    /\ clock = 0
    /\ line_read = None
    /\ lines_read = 0
    /\ well_formed = 0
    /\ referenced = {}
    /\ evictions = 0
    /\ consumed = << >>
    /\ written = {}
    /\ queue = << >>
    /\ NoSecond
    /\ NoDriver

\* The resident pages in the order they entered memory, after the call of
\* Sim::next on `line` with the outcome out: the pages that have left the
\* memory leave the queue, and the page of the line joins its end when the
\* call brought it into memory.
QueueAfter(memory, out, line) ==
    IF out.panicked
    THEN queue
    ELSE LET p == parse_line(line)[1].virtual_page_number
             Stays(q) == contains(out.self.memory, q)
         IN  IF contains(memory, p)
             THEN queue
             ELSE Append(SelectSeq(queue, Stays), p)

\* Sim::next when the trace reader returns a line.
fifo_line ==
    /\ pc = "running"
    /\ lines_read < MaxFifoLen
    /\ \E line \in FifoLines :
         LET n == Sim_next(sim, Some(line), << clock, clock, clock >>, 0).now_calls
         IN  \E t \in Ticks(clock, n) :
               LET out == Sim_next(sim, Some(line), t, 0)
               IN  /\ sim' = out.self
                   /\ pc' = IF out.panicked THEN "panicked" ELSE "running"
                   /\ clock' = ClockAfter(clock, t, out)
                   /\ line_read' = Some(line)
                   /\ lines_read' = lines_read + 1
                   /\ queue' = QueueAfter(sim.memory, out, line)
    /\ UNCHANGED << well_formed, referenced, evictions, consumed, written >>
    /\ UNCHANGED << second, driver >>

\* Sim::next when the trace reader is at the end of the trace.
fifo_none ==
    /\ pc = "running"
    /\ sim' = Sim_next(sim, None, << clock, clock, clock >>, 0).self
    /\ pc' = "exhausted"
    /\ line_read' = None
    /\ UNCHANGED << clock, lines_read, second, driver >>
    /\ UNCHANGED << well_formed, referenced, evictions, consumed, written, queue >>

NextFifo == fifo_line \/ fifo_none

SpecFifo == InitFifo /\ [][NextFifo]_vars

\* ------------------------------------------------------------- the claims

\* The three names evict dispatches on.
Policies == { "random", "lru", "fifo" }

\* The virtual page number of a line that parses.
PageOf(line) == parse_line(line)[1].virtual_page_number

\* A step in which slot i (1-based) held `victim` and does no longer.
Replaced(i, victim) ==
    /\ victim # None
    /\ sim.memory[i] = victim
    /\ sim'.memory[i] # victim

\* C1: with a memory size greater than or equal to the number of distinct
\* virtual page numbers referenced by the trace, write_count is 0 in every
\* snapshot under random, lru and fifo, and no occupied slot is ever
\* chosen as victim.
C1_NoWriteWhenMemoryFits ==
    ( /\ sim.algorithm \in Policies
      /\ Len(sim.memory) >= Cardinality(referenced) )
    => /\ sim.state.write_count = 0
       /\ evictions = 0

\* A finished lru run whose two pages, one of them written, fill a memory
\* of two slots.
C1_Witness ==
    /\ pc = "exhausted"
    /\ sim.algorithm = "lru"
    /\ Len(sim.memory) = 2
    /\ Cardinality(referenced) = 2
    /\ sim.state.read_count = 2
    /\ sim.state.total_events = 3
    /\ \E p \in DOMAIN sim.page_table : sim.page_table[p].is_dirty

\* C2: under fifo and lru two runs on the same trace with the same memory
\* size end with the same SimState, whatever the clock returns in each.
C2_SameFinalState ==
    ( /\ pc = "exhausted"
      /\ pc2 = "exhausted" )
    => sim.state = sim2.state

\* C3: a fault whose victim slot holds a page p with a dirty entry adds 1 to
\* write_count and 1 to read_count, removes the entry of p and puts the
\* faulting page into the slot, so that p is not resident and its next
\* access faults.
C3_Step ==
    \A i \in 1..Len(sim.memory) :
      LET victim == sim.memory[i]
      IN  ( /\ Replaced(i, victim)
            /\ victim[1] \in DOMAIN sim.page_table
            /\ sim.page_table[victim[1]].is_dirty )
          => /\ sim'.state.write_count = sim.state.write_count + 1
             /\ sim'.state.read_count = sim.state.read_count + 1
             /\ victim[1] \notin DOMAIN sim'.page_table
             /\ sim'.memory[i] = Some(PageOf(line_read'[1]))
             /\ ~contains(sim'.memory, victim[1])

\* C3: the trace "0 W", "1000 R", "0 R" with one slot under fifo or lru ends
\* with total_events = 3, read_count = 3, write_count = 1.
C3_Scenario ==
    ( /\ consumed = Scenario_0W_1000R_0R
      /\ Len(sim.memory) = 1
      /\ sim.algorithm \in { "fifo", "lru" }
      /\ pc = "exhausted" )
    => sim.state = [ total_events |-> 3, read_count |-> 3, write_count |-> 1 ]

\* C3: both parts, the step of a dirty eviction and the scenario in the
\* state every step leads to.
C3_DirtyVictim == [][C3_Step /\ C3_Scenario']_vars

\* The scenario's run under fifo at its end.
C3_Witness ==
    /\ consumed = Scenario_0W_1000R_0R
    /\ Len(sim.memory) = 1
    /\ sim.algorithm = "fifo"
    /\ pc = "exhausted"
    /\ sim.state.write_count = 1
    /\ 0 \in DOMAIN sim.page_table

\* C4: a fault whose victim slot holds a page p with a clean entry leaves
\* write_count as it is and leaves the entry of p in the page table with
\* is_dirty, created_at and last_referenced unchanged, while p is not
\* resident any more.
C4_Step ==
    \A i \in 1..Len(sim.memory) :
      LET victim == sim.memory[i]
      IN  ( /\ Replaced(i, victim)
            /\ victim[1] \in DOMAIN sim.page_table
            /\ ~sim.page_table[victim[1]].is_dirty )
          => /\ sim'.state.write_count = sim.state.write_count
             /\ victim[1] \in DOMAIN sim'.page_table
             /\ sim'.page_table[victim[1]] = sim.page_table[victim[1]]
             /\ ~contains(sim'.memory, victim[1])

\* C4: the trace "0 R", "1000 W" with one slot ends with total_events = 2,
\* read_count = 2, write_count = 0.
C4_Scenario ==
    ( /\ consumed = Scenario_0R_1000W
      /\ Len(sim.memory) = 1
      /\ sim.algorithm \in Policies
      /\ pc = "exhausted" )
    => sim.state = [ total_events |-> 2, read_count |-> 2, write_count |-> 0 ]

\* C4: both parts, the step of a clean eviction and the scenario in the
\* state every step leads to.
C4_CleanVictim == [][C4_Step /\ C4_Scenario']_vars

\* The scenario's run at its end: page 0 has left the memory and kept its
\* entry.
C4_Witness ==
    /\ consumed = Scenario_0R_1000W
    /\ Len(sim.memory) = 1
    /\ sim.algorithm \in Policies
    /\ pc = "exhausted"
    /\ ~contains(sim.memory, 0)
    /\ 0 \in DOMAIN sim.page_table
    /\ ~sim.page_table[0].is_dirty

\* C5: with a memory size of 1 or more, total_events is the number of lines
\* read that are not malformed, at the end of a full run and after every
\* event before it.
C5_TotalEvents ==
    ( /\ pc # "panicked"
      /\ Len(sim.memory) >= 1 )
    => sim.state.total_events = well_formed

\* A full run of three events.
C5_Witness ==
    /\ pc = "exhausted"
    /\ Len(sim.memory) >= 1
    /\ well_formed = 3
    /\ sim.state.total_events = 3

\* C6: read_count exceeds neither total_events nor the number of distinct
\* virtual page numbers referenced plus the number of evictions.
C6_ReadCount ==
    /\ sim.state.read_count <= sim.state.total_events
    /\ sim.state.read_count <= Cardinality(referenced) + evictions

\* A full run with a hit, a fault into an empty slot and an eviction.
C6_Witness ==
    /\ pc = "exhausted"
    /\ evictions = 1
    /\ Cardinality(referenced) = 2
    /\ sim.state.read_count = 2
    /\ sim.state.total_events = 3

\* C7: reading a malformed line ends the run with a panic and leaves the
\* stored SimState, the memory and the page table as they were.
C7_Step ==
    ( /\ lines_read' = lines_read + 1
      /\ Malformed(line_read'[1]) )
    => /\ pc' = "panicked"
       /\ sim' = sim

C7_MalformedLine == [][C7_Step]_vars

\* The run has panicked on "zz R" after an event that loaded a page.
C7_Witness ==
    /\ pc = "panicked"
    /\ line_read = Some(Line_zzR)
    /\ sim.state.total_events = 1
    /\ sim.state.read_count = 1

\* C8: with a policy name that is none of random, lru and fifo no event is
\* processed, so that no snapshot (which counts its event) is emitted.
C8_UnknownPolicyFatal ==
    sim.algorithm \notin Policies => sim.state.total_events = 0

\* C9: with a memory of no slots the run fails before a trace line is read,
\* and so never reads one nor reaches the end of the trace.
C9_ZeroMemoryFatal ==
    Len(sim.memory) = 0
    => /\ lines_read = 0
       /\ pc # "exhausted"

\* The virtual page numbers the lines of the trace file refer to.
TracePages == UNION { PagesOf(trace_file[i]) : i \in 1..Len(trace_file) }

\* C10: find_optimal_memory returns the smallest memory size whose run shows
\* no write-back: the search has not seen the run at the returned size
\* write, and every smaller size has a run that writes, which a size with a
\* slot for every page of the trace has not (C1).
C10_SmallestCleanSize ==
    returned # None
    => /\ returned[1] \notin wrote
       /\ \A n \in 1..(returned[1] - 1) : n < Cardinality(TracePages)

\* Whether every line of the trace file parses.
TraceParses ==
    \A i \in 1..Len(trace_file) : parse_line(trace_file[i]) # Err

\* C11: on a trace whose lines all parse, writes_to_memory does not abort
\* but returns its samples: the page counts are 50, 100, 150, ... in this
\* order, the last sample has write_count = 0 and every earlier one has
\* write_count > 0.
C11_SweepReturnsSamples ==
    /\ (TraceParses => pc # "panicked")
    /\ returned # None
       => LET entries == returned[1]
          IN  /\ Len(entries) >= 1
              /\ \A i \in 1..Len(entries) :
                   /\ entries[i][1] = SweepStep * i
                   /\ (entries[i][2] = 0) <=> (i = Len(entries))

\* C12: a virtual page number occupies at most one memory slot.
C12_PageInOneSlot ==
    \A i, j \in 1..Len(sim.memory) :
        (i # j /\ sim.memory[i] # None) => sim.memory[i] # sim.memory[j]

\* Three accesses to one page with a memory of two slots: the page is in
\* slot 0 and slot 1 is still empty.
C12_Witness ==
    /\ Len(sim.memory) = 2
    /\ sim.memory[1] # None
    /\ sim.memory[2] = None
    /\ sim.state.total_events = 3
    /\ sim.state.read_count = 1

\* C13: with a memory of one slot or more and one of the three policies, a
\* call of Sim::next on a line that is not malformed does not abort and
\* emits a snapshot, which counts one more event; at the end of the trace
\* the call returns None and the run is exhausted; and from then on every
\* call leaves the run exhausted and the Sim as it is.
C13_Step ==
    ( /\ Len(sim.memory) >= 1
      /\ sim.algorithm \in Policies )
    => /\ ( /\ lines_read' = lines_read + 1
            /\ ~Malformed(line_read'[1]) )
          => /\ pc' = "running"
             /\ sim'.state.total_events = sim.state.total_events + 1
             /\ sim'.state.total_events = lines_read'
       /\ ( /\ lines_read' = lines_read
            /\ line_read' = None )
          => /\ pc' = "exhausted"
             /\ sim' = sim
       /\ pc = "exhausted" => (pc' = "exhausted" /\ sim' = sim)

C13_NoAbortThenExhausted == [][C13_Step]_vars

\* A run under random that has read three lines, evicted a dirty page and
\* reached the end of its trace.
C13_Witness ==
    /\ pc = "exhausted"
    /\ sim.algorithm = "random"
    /\ lines_read = 3
    /\ sim.state.total_events = 3
    /\ sim.state.write_count = 1

\* C15: a call that stores a page while a slot is empty stores it in the
\* first empty slot, whatever the policy name and the page table; a slot
\* that is occupied is given to another page only when no slot is empty.
C15_Step ==
    \A i \in 1..Len(sim.memory) :
        ( /\ sim'.memory[i] # sim.memory[i]
          /\ \E k \in 1..Len(sim.memory) : sim.memory[k] = None )
        => /\ sim.memory[i] = None
           /\ \A j \in 1..(i - 1) : sim.memory[j] # None

C15_FirstEmptySlot == [][C15_Step]_vars

\* Under a name that is no policy the pages 1 and 0 have gone to the slots
\* 0 and 1 in this order.
C15_Witness ==
    /\ sim.algorithm = "mru"
    /\ sim.memory = << Some(1), Some(0) >>
    /\ sim.state.total_events = 2
    /\ pc = "running"

\* last_referenced of the page in slot i (1-based) of the Sim
LastReferencedIn(i) == sim.page_table[sim.memory[i][1]].last_referenced

\* C16: under lru with no empty slot the victim's page has the smallest
\* last_referenced of the resident pages, and every slot of a lower index
\* holds a page of a greater last_referenced.
C16_Step ==
    ( /\ sim.algorithm = "lru"
      /\ \A k \in 1..Len(sim.memory) : sim.memory[k] # None )
    => \A i \in 1..Len(sim.memory) :
         Replaced(i, sim.memory[i])
         => \A j \in 1..Len(sim.memory) :
              /\ LastReferencedIn(i) <= LastReferencedIn(j)
              /\ j < i => LastReferencedIn(i) < LastReferencedIn(j)

C18_Dirty ==
    \A i \in 1..Len(sim.memory) :
        sim.memory[i] # None
        => /\ sim.memory[i][1] \in DOMAIN sim.page_table
           /\ sim.page_table[sim.memory[i][1]].is_dirty
              <=> sim.memory[i][1] \in written

\* C18: an event of a Read leaves is_dirty of every page that has an entry
\* before and after it as it is, and an event of a Write leaves the entry
\* of its page dirty.
C18_Step ==
    ( /\ lines_read' = lines_read + 1
      /\ pc' = "running" )
    => LET op == parse_line(line_read'[1])[1]
       IN  /\ op.op = "W"
              => sim'.page_table[op.virtual_page_number].is_dirty
           /\ op.op = "R"
              => \A q \in DOMAIN sim.page_table \cap DOMAIN sim'.page_table :
                   sim'.page_table[q].is_dirty = sim.page_table[q].is_dirty

C18_DirtySinceLoaded == [][C18_Step /\ C18_Dirty']_vars

\* Page 0 was written, then read, and is resident and dirty, beside page 1,
\* which was read and is clean.
C18_Witness ==
    /\ sim.memory = << Some(0), Some(1) >>
    /\ written = {0}
    /\ sim.page_table[0].is_dirty
    /\ ~sim.page_table[1].is_dirty
    /\ line_read = Some(Line_0R)
    /\ lines_read = 3

\* C19: every virtual page number in a memory slot has a page table entry,
\* so that memory_to_pages leaves out no occupied slot.
C19_ResidentHasEntry ==
    /\ \A i \in 1..Len(sim.memory) :
         sim.memory[i] # None => sim.memory[i][1] \in DOMAIN sim.page_table
    /\ Len(memory_to_pages(sim.memory, sim.page_table))
       = Cardinality({ i \in 1..Len(sim.memory) : sim.memory[i] # None })

\* A full memory of two slots after the eviction of a dirty page, whose
\* entry was removed: the candidate set of lru or fifo is every slot.
C19_Witness ==
    /\ sim.algorithm \in { "lru", "fifo" }
    /\ Len(sim.memory) = 2
    /\ sim.state.write_count = 1
    /\ Len(memory_to_pages(sim.memory, sim.page_table)) = 2
    /\ Cardinality(DOMAIN sim.page_table) = 2

\* C20: every page table entry that is dirty belongs to a page that is
\* resident.
C20_DirtyIsResident ==
    \A p \in DOMAIN sim.page_table :
        sim.page_table[p].is_dirty => contains(sim.memory, p)

\* A dirty page has been evicted (its entry removed) and a clean one has
\* been evicted (its entry kept): the page table holds a resident dirty
\* page and a page that is not resident.
C20_Witness ==
    /\ Len(sim.memory) = 1
    /\ sim.state.write_count = 1
    /\ \E p \in DOMAIN sim.page_table :
         sim.page_table[p].is_dirty /\ contains(sim.memory, p)
    /\ \E p \in DOMAIN sim.page_table : ~contains(sim.memory, p)

\* C14: parse_line returns no Operation for a line that deviates from the
\* format "<hex-address> <R|W>": further fields after the operation code,
\* no operation code, a blank line among them.
C14_DeviationIsError ==
    ( /\ returned # None
      /\ ~FormatOk(line_read[1]) )
    => returned[1] = Err

\* created_at of the page in slot i (1-based) of the Sim
CreatedAtIn(i) == sim.page_table[sim.memory[i][1]].created_at

\* C17: under fifo with no empty slot the victim is the resident page that
\* entered memory first, the head of the queue.  The step is looked at when
\* no two resident pages share their created_at, so that the order of the
\* slots decides nothing.
C17_Step ==
    ( /\ sim.algorithm = "fifo"
      /\ \A k \in 1..Len(sim.memory) : sim.memory[k] # None
      /\ \A j, k \in 1..Len(sim.memory) :
           j # k => CreatedAtIn(j) # CreatedAtIn(k) )
    => \A i \in 1..Len(sim.memory) :
         Replaced(i, sim.memory[i]) => sim.memory[i][1] = Head(queue)

C17_FifoOrder == [][C17_Step]_vars

====
